---- MODULE Spec2Model ----
(***************************************************************************)
(* The AgentService state store of agent-orchestra-trace: the collections  *)
(* (messages, traces, tasks, userRequests), the processing flag, the       *)
(* update-callback list, the framework selection, and the asynchronous     *)
(* submitUserRequest calls that mutate them.                               *)
(*                                                                         *)
(* The repository holds the service in two generations:                    *)
(*   "simulating" : src/unnamed/part_003 (and its native-only ancestor     *)
(*                  src/unnamed/part_004:1-261): single-flight guard,      *)
(*                  UserRequest records, simulateAgentCollaboration,       *)
(*                  clearData;                                             *)
(*   "current"    : src/src/services/agentService.ts: no guard, no         *)
(*                  UserRequest, adapter batches through handleNew*.       *)
(* A run is of one generation and of one kind of client session (scenario): *)
(*   "dashboard" : the simulating store behind the dashboard: subscribers   *)
(*                 come and go, the framework is switched and clearData is  *)
(*                 called at any moment while one request runs;             *)
(*   "sequence"  : the simulating store, one request after another, the     *)
(*                 framework switched and the store reset between requests; *)
(*   "current"   : the current store, calls overlapping freely, records     *)
(*                 arriving over the adapter's push channel.                *)
(*                                                                         *)
(* One action is one synchronous stretch of JavaScript: from a call or a   *)
(* timer/promise resumption to the next await.  Everything a stretch does  *)
(* (every mutation, every notification round, catch and finally) is part   *)
(* of that one action.                                                     *)
(***************************************************************************)
EXTENDS Integers, Sequences, FiniteSets, TLC

VARIABLES
  scenario,             \* the session: "dashboard", "sequence", "current",
                        \* "adapter", "reset" or "delivery"
  messages,             \* Message[]
  traces,               \* Trace[]
  tasks,                \* AgentTask[]
  userRequests,         \* UserRequest[]            (simulating only)
  processingRequest,    \* processingRequest / processing
  onUpdateCallbacks,    \* onUpdateCallbacks / updateCallbacks
  activeFramework,      \* activeFramework / the use* flags
  currentConversationId,\* currentConversationId / conversationId
  calls,                \* the submitUserRequest invocations, by request number
  nClears,              \* clearData calls so far
  nDeliveries,          \* batches pushed so far
  adapters,             \* the AutoGenAdapter and RasaAdapter singletons
  last                  \* what the most recent step did (observation only)

vars == <<scenario, messages, traces, tasks, userRequests, processingRequest,
          onUpdateCallbacks, activeFramework, currentConversationId, calls,
          nClears, nDeliveries, adapters, last>>

------------------------------------------------------------------------------
(* Bounds of the model *)

MaxRequests == 2     \* submitUserRequest calls accepted in one run
MaxCallbacks == 2    \* length of the callback list
MaxClears == 1       \* clearData calls in one run
MaxDeliveries == 1   \* batches pushed by the adapter's channel in one run
MaxSockets == 4      \* WebSocket objects constructed in one run
MaxCreates == 2      \* conversation identifiers allocated in one run
MaxOverlap == 2      \* delays of a request that elapse while an older one runs
MaxBatches == 3      \* deliveries in one run of the delivery session

------------------------------------------------------------------------------
(* Inputs *)

\* The request texts: one matching no keyword branch, one matching the
\* job-search/android branch of simulateLangChainProcess.
Texts == {"plain", "android job"}

\* The text of the sessions in which the wording plays no part
PlainTexts == {"plain"}

\* The subscribers a client may register.  cbA only reads the getters; cbU
\* unregisters cbA when it is notified; cbT throws.
Callbacks == {"cbA", "cbU", "cbT"}

Frameworks == {"native", "autogen", "langchain", "rasa"}

NoErr == "none"
Null == "null"          \* no conversation id
NoContent == <<>>       \* an undefined text (result not set)

ReqIds == 1..MaxRequests

------------------------------------------------------------------------------
(* Sequence helpers *)

RECURSIVE FindIndex(_, _, _)
\* Array.prototype.findIndex on an id field: first index whose id is id, 0 if none
FindIndex(s, id, i) ==
  IF i > Len(s) THEN 0
  ELSE IF s[i].id = id THEN i ELSE FindIndex(s, id, i + 1)

IsPrefix(s, t) == Len(s) <= Len(t) /\ SubSeq(t, 1, Len(s)) = s

------------------------------------------------------------------------------
(* The store as a value: the service's fields, plus the bookkeeping of the  *)
(* step being executed (rounds: the notification rounds of this step; err:  *)
(* the exception in flight; tick: the timestamp of this stretch; emitted:   *)
(* how many messages the stretch's addMessage calls created; what: the      *)
(* mutator that is about to notify; refused: the stretch was resumed by an  *)
(* adapter that answered that it cannot connect or cannot open a            *)
(* conversation).                                                           *)

Store ==
  [messages |-> messages, traces |-> traces, tasks |-> tasks,
   userRequests |-> userRequests, processingRequest |-> processingRequest,
   cbs |-> onUpdateCallbacks, conv |-> currentConversationId,
   rounds |-> <<>>, err |-> NoErr, tick |-> Len(messages) + 1, emitted |-> 0,
   what |-> "other", refused |-> FALSE]

RECURSIVE RemoveFirstCallback(_, _)
\* an unregistration that drops one registration only (indexOf + splice)
RemoveFirstCallback(cbs, cb) ==
  IF cbs = <<>> THEN <<>>
  ELSE IF Head(cbs) = cb THEN Tail(cbs)
       ELSE <<Head(cbs)>> \o RemoveFirstCallback(Tail(cbs), cb)

\* unregisterUpdateCallback: filter(cb => cb !== callback) into a new array
RemoveCallback(cbs, cb) == SelectSeq(cbs, LAMBDA x : x # cb)

\* The body of one subscriber.
InvokeCallback(S, cb) ==
  CASE cb = "cbU" -> [S EXCEPT !.cbs = RemoveCallback(S.cbs, "cbA")]
    [] cb = "cbT" -> [S EXCEPT !.err = "subscriber threw"]
    [] OTHER      -> S

RECURSIVE ForEachCallbackIsolated(_, _, _)
\* forEach whose callbacks are each wrapped in try/catch
ForEachCallbackIsolated(S, snap, i) ==
  IF i > Len(snap) THEN S
  ELSE LET n  == Len(S.rounds)
           registered == \E j \in 1..Len(S.cbs) : S.cbs[j] = snap[i]
           S1 == InvokeCallback(
                   [S EXCEPT !.rounds[n].invoked = Append(@, snap[i]),
                             !.rounds[n].unregistered =
                                IF registered THEN @ ELSE Append(@, snap[i])],
                   snap[i])
       IN ForEachCallbackIsolated([S1 EXCEPT !.err = S.err], snap, i + 1)

RECURSIVE ForEachCallback(_, _, _)
\* forEach over the array object that was the field's value when the round
\* started; a throwing subscriber ends the round.
ForEachCallback(S, snap, i) ==
  IF i > Len(snap) THEN S
  ELSE LET n  == Len(S.rounds)
           registered == \E j \in 1..Len(S.cbs) : S.cbs[j] = snap[i]
           S1 == InvokeCallback(
                   [S EXCEPT !.rounds[n].invoked = Append(@, snap[i]),
                             !.rounds[n].unregistered =
                                IF registered THEN @ ELSE Append(@, snap[i])],
                   snap[i])
       IN IF S1.err # NoErr THEN S1 ELSE ForEachCallback(S1, snap, i + 1)

\* What the getters show: getMessages, getTraces, getTasks, getUserRequests,
\* isProcessing
Getters(msgs, trs, tks, urs, processing) ==
  [messages |-> Len(msgs), traces |-> Len(trs),
   tasks |-> [i \in 1..Len(tks) |-> <<tks[i].id, tks[i].status>>],
   userRequests |-> [i \in 1..Len(urs) |-> <<urs[i].id, urs[i].status>>],
   processing |-> processing]

TriggerUpdate(S) ==
  LET T == ForEachCallback(
             [S EXCEPT !.rounds =
                Append(@, [at |-> S.cbs, invoked |-> <<>>,
                           unregistered |-> <<>>, after |-> S.what,
                           seen |-> Getters(S.messages, S.traces, S.tasks,
                                            S.userRequests,
                                            S.processingRequest)])],
             S.cbs, 1)
  IN [T EXCEPT !.what = "other"]

\* addMessage that keeps only the two newest messages
AddMessageCapped(S, req, from, to, content, type) ==
  IF S.err # NoErr THEN S
  ELSE TriggerUpdate(
         [S EXCEPT !.what = "addMessage", !.messages =
                     Append(IF Len(@) >= 2 THEN Tail(@) ELSE @,
                            [from |-> from, to |-> to, content |-> content,
                             type |-> type, ts |-> S.tick, req |-> req]),
                   !.emitted = @ + 1])

\* A statement is skipped when an exception is already propagating.
AddMessage(S, req, from, to, content, type) ==
  IF S.err # NoErr THEN S
  ELSE TriggerUpdate(
         [S EXCEPT !.what = "addMessage",
                   !.messages = Append(@, [from |-> from, to |-> to,
                                           content |-> content, type |-> type,
                                           ts |-> S.tick, req |-> req]),
                   !.emitted = @ + 1])

AddTrace(S, req, agentId, action) ==
  IF S.err # NoErr THEN S
  ELSE TriggerUpdate(
         [S EXCEPT !.what = "addTrace", !.traces = Append(@, [agentId |-> agentId, action |-> action,
                                         req |-> req])])

AddTask(S, id, assignedTo) ==
  IF S.err # NoErr THEN S
  ELSE TriggerUpdate(
         [S EXCEPT !.what = "addTask", !.tasks = Append(@, [id |-> id, assignedTo |-> assignedTo,
                                        status |-> "pending", result |-> NoContent,
                                        completedAt |-> FALSE, by |-> "store"])])

\* updateTask that marks the task completed whatever status is asked for
UpdateTaskCompleting(S, id, status, result) ==
  IF S.err # NoErr THEN S
  ELSE LET i == FindIndex(S.tasks, id, 1)
       IN IF i = 0 THEN S
          ELSE TriggerUpdate([S EXCEPT !.what = "updateTask", !.tasks[i].status = "completed",
                                       !.tasks[i].result = result,
                                       !.tasks[i].completedAt = TRUE])

UpdateTask(S, id, status, result) ==
  IF S.err # NoErr THEN S
  ELSE LET i == FindIndex(S.tasks, id, 1)
       IN IF i = 0 THEN S
          ELSE TriggerUpdate(
                 [S EXCEPT !.what = "updateTask",
                           !.tasks[i].status = status,
                           !.tasks[i].result = IF status = "completed" THEN result ELSE @,
                           !.tasks[i].completedAt = IF status = "completed" THEN TRUE ELSE @])

------------------------------------------------------------------------------
(* Generated text.  A text is kept as <<path, kind, template, request text>>: *)
(* the templates interpolate the request text, and simulateLangChainProcess  *)
(* picks the template by substring tests on it.                              *)

\* isJobSearch && includes('android')
IsAndroidJobSearch(text) == text = "android job"

Content(path, kind, text) ==
  <<path, kind,
    IF path = "langchain" /\ IsAndroidJobSearch(text) THEN "android" ELSE "generic",
    text>>

TaskId(req, phase) == <<req, phase>>

\* The stretch of simulateAgentCollaboration / simulateLangChainProcess that
\* runs when its k-th delay has elapsed, up to the next delay.
SimSegment(S, req, path, text, k) ==
  CASE k = 1 ->
         AddMessage(
           AddTask(AddTrace(S, req, "coordinator-1", "analyzing_request"),
                   TaskId(req, "research"), "researcher-1"),
           req, "coordinator-1", "researcher-1",
           Content(path, "ask_research", text), "internal")
    [] k = 2 ->
         UpdateTask(AddTrace(S, req, "researcher-1", "research_started"),
                    TaskId(req, "research"), "in-progress", NoContent)
    [] k = 3 ->
         AddMessage(
           AddTask(
             AddMessage(
               UpdateTask(AddTrace(S, req, "researcher-1", "research_completed"),
                          TaskId(req, "research"), "completed",
                          Content(path, "research", text)),
               req, "researcher-1", "coordinator-1",
               Content(path, "research", text), "internal"),
             TaskId(req, "planning"), "planner-1"),
           req, "coordinator-1", "planner-1",
           Content(path, "ask_plan", text), "internal")
    [] k = 4 ->
         UpdateTask(AddTrace(S, req, "planner-1", "planning_started"),
                    TaskId(req, "planning"), "in-progress", NoContent)
    [] k = 5 ->
         AddMessage(
           AddTask(
             AddMessage(
               UpdateTask(AddTrace(S, req, "planner-1", "planning_completed"),
                          TaskId(req, "planning"), "completed",
                          Content(path, "plan", text)),
               req, "planner-1", "coordinator-1",
               Content(path, "plan", text), "internal"),
             TaskId(req, "execution"), "executor-1"),
           req, "coordinator-1", "executor-1",
           Content(path, "ask_execute", text), "internal")
    [] k = 6 ->
         UpdateTask(AddTrace(S, req, "executor-1", "execution_started"),
                    TaskId(req, "execution"), "in-progress", NoContent)
    [] k = 7 ->
         AddMessage(
           UpdateTask(AddTrace(S, req, "executor-1", "execution_completed"),
                      TaskId(req, "execution"), "completed",
                      Content(path, "solution", text)),
           req, "executor-1", "coordinator-1",
           Content(path, "solution", text), "internal")
    [] k = 8 ->
         AddTrace(S, req, "coordinator-1", "reviewing_solution")
    [] k = 9 ->
         AddMessage(AddTrace(S, req, "coordinator-1", "solution_approved"),
                    req, "coordinator-1", "executor-1",
                    Content(path, "approved", text), "internal")
    [] OTHER ->
         AddTrace(
           AddMessage(S, req, "executor-1", "user",
                      Content(path, "solution", text), "response"),
           req, "executor-1", "response_delivered")

\* The number of await delay(..) calls of a simulation routine
NumDelays == 10

------------------------------------------------------------------------------
(* submitUserRequest after the try body: the status update, catch, finally *)

IsUserResponse(m) == m.to = "user" /\ m.type = "response"

RECURSIVE LatestOf(_, _, _)
\* .sort((a, b) => b.timestamp - a.timestamp)[0] on a stable sort: the entry
\* with the greatest timestamp, the earliest such entry among equals.
LatestOf(s, i, best) ==
  IF i > Len(s) THEN best
  ELSE LatestOf(s, i + 1, IF best = 0 \/ s[i].ts > s[best].ts THEN i ELSE best)

FinalResponse(msgs) ==
  LET r == SelectSeq(msgs, IsUserResponse)
  IN IF r = <<>> THEN NoContent ELSE r[LatestOf(r, 1, 0)].content

CompleteRequest(S, req) ==
  LET i == FindIndex(S.userRequests, req, 1)
      f == FinalResponse(S.messages)
  IN IF i = 0 THEN S
     ELSE [S EXCEPT !.userRequests[i].status = "completed",
                    !.userRequests[i].result = IF f # NoContent THEN f ELSE @]

FailRequest(S, req) ==
  LET i == FindIndex(S.userRequests, req, 1)
      T == [S EXCEPT !.err = NoErr]
  IN IF i = 0 THEN T
     ELSE [T EXCEPT !.userRequests[i].status = "failed",
                    !.userRequests[i].result = <<"Error", S.err>>]

\* finally { processingRequest = false; triggerUpdate() }: it runs also when
\* the catch block threw, and then that exception goes on unless the finally
\* block throws itself.
Finally(S) ==
  LET T == TriggerUpdate([S EXCEPT !.processingRequest = FALSE, !.err = NoErr])
  IN IF T.err # NoErr THEN T ELSE [T EXCEPT !.err = S.err]

------------------------------------------------------------------------------
(* The adapter singletons.  A run of the "adapter" session is of one        *)
(* adapter (variant):                                                       *)
(*   "backoff" : AutoGenAdapter of src/src/services/autogenAdapter.ts       *)
(*               (coalesced connect, awaited socket, capped reconnects);    *)
(*   "fixed"   : AutoGenAdapter of src/unnamed/part_006 (socket not         *)
(*               awaited, reconnect after a fixed delay);                   *)
(*   "rasa"    : RasaAdapter of src/src/services/rasaAdapter.ts:30-120.     *)
(* A socket is "CONNECTING", "OPEN", "CLOSING" (close() on an open socket), *)
(* "FAILING" (close() on a connecting socket: readyState CLOSING, the       *)
(* connection is failed and an error event precedes its close event) or     *)
(* "CLOSED".  Every socket keeps the handlers it was given, so the handlers *)
(* of a replaced socket still run on the adapter's fields.                  *)

AdapterVariants == {"backoff", "fixed", "rasa"}

\* private maxReconnectAttempts: number = 5
MaxReconnectAttempts == 5

\* the callers that can hold a connect() call: a client calling connect()
\* itself, and createConversation
Slots == {"direct", "create"}

Min(a, b) == IF a <= b THEN a ELSE b

\* The boolean that connect() resolved with, as it is logged
Answer(b) == IF b THEN "true" ELSE "false"

\* Math.min(1000 * Math.pow(2, this.reconnectAttempts), 30000), in ms
BackoffDelay(k) == Min(1000 * (2 ^ k), 30000)

\* setTimeout(() => this.connectWebSocket(), 5000)
FixedDelay == 5000

IdleConn ==
  [pc |-> "idle", sock |-> 0, notified |-> FALSE, changed |-> FALSE,
   result |-> "none"]

IdleCreate ==
  [pc |-> "idle", wasConnected |-> FALSE, connected |-> "none", result |-> "none",
   id |-> 0, fresh |-> FALSE, recorded |-> FALSE]

\* The adapter after construction.  scheduled: the delays of the reconnects
\* scheduled since the last open event; conn[slot].notified / .changed:
\* whether the connect() run that slot holds has raised an error notification,
\* and whether it has given a field a new value (observation only).
InitAdapters(v) ==
  [variant |-> v, isConnected |-> FALSE, websocket |-> 0, sockets |-> <<>>,
   conversations |-> {}, currentConversationId |-> 0, uuid |-> 0,
   connectPromise |-> "none", reconnectAttempts |-> 0, timers |-> 0,
   scheduled |-> <<>>, gaveUp |-> FALSE, intervals |-> 0,
   conn |-> [s \in Slots |-> IdleConn], create |-> IdleCreate]

------------------------------------------------------------------------------
(* State after construction *)

Simulating == scenario \in {"dashboard", "sequence", "reset"}

\* The store that is fed by the adapter's callbacks (agentService.ts)
Pushing == scenario \in {"current", "delivery"}

IdleCall ==
  [pc |-> "idle", k |-> 0, path |-> "native", text |-> "plain", direct |-> FALSE,
   ur |-> [status |-> "none", result |-> NoContent],
   outcome |-> "none", nMsg |-> 0, tryOk |-> FALSE, caught |-> FALSE,
   refused |-> FALSE, sent |-> Null]

NoStep == [op |-> "init", req |-> 0, rounds |-> <<>>, threw |-> FALSE]

Init ==
  /\ scenario \in {"dashboard", "sequence", "current", "adapter", "reset",
                  "delivery"}
  /\ messages = <<>>
  /\ traces = <<>>
  /\ tasks = <<>>
  /\ userRequests = <<>>
  /\ processingRequest = FALSE
  /\ onUpdateCallbacks = <<>>
  /\ activeFramework = "native"
  /\ currentConversationId = Null
  /\ calls = [c \in ReqIds |-> IdleCall]
  /\ nClears = 0
  /\ nDeliveries = 0
  /\ adapters \in {InitAdapters(v) :
                     v \in IF scenario = "adapter" THEN AdapterVariants
                                                  ELSE {"backoff"}}
  /\ last = NoStep

\* Write the store value back to the fields.
Commit(S) ==
  /\ messages' = S.messages
  /\ traces' = S.traces
  /\ tasks' = S.tasks
  /\ userRequests' = S.userRequests
  /\ processingRequest' = S.processingRequest
  /\ onUpdateCallbacks' = S.cbs
  /\ currentConversationId' = S.conv

Observed(op, req, S) ==
  [op |-> op, req |-> req, rounds |-> S.rounds, threw |-> S.err # NoErr]

\* The local userRequest object is the object stored in userRequests: it shows
\* what the array entry shows for as long as the entry is in the array.
Alias(S, req, ur) ==
  LET i == FindIndex(S.userRequests, req, 1)
  IN IF i = 0 THEN ur
     ELSE [status |-> S.userRequests[i].status, result |-> S.userRequests[i].result]

------------------------------------------------------------------------------
(* Subscription and configuration *)

RegisterUpdateCallback(cb) ==
  /\ Len(onUpdateCallbacks) < MaxCallbacks
  /\ onUpdateCallbacks' = Append(onUpdateCallbacks, cb)
  /\ last' = [NoStep EXCEPT !.op = "config"]
  /\ UNCHANGED <<scenario, adapters, messages, traces, tasks, userRequests, processingRequest,
                 activeFramework, currentConversationId, calls, nClears,
                 nDeliveries>>

UnregisterUpdateCallback(cb) ==
  /\ onUpdateCallbacks' = RemoveCallback(onUpdateCallbacks, cb)
  /\ last' = [NoStep EXCEPT !.op = "config"]
  /\ UNCHANGED <<scenario, adapters, messages, traces, tasks, userRequests, processingRequest,
                 activeFramework, currentConversationId, calls, nClears,
                 nDeliveries>>

SetFramework(fw) ==
  /\ activeFramework' = fw
  /\ last' = [NoStep EXCEPT !.op = "config"]
  /\ UNCHANGED <<scenario, adapters, messages, traces, tasks, userRequests, processingRequest,
                 onUpdateCallbacks, currentConversationId, calls, nClears,
                 nDeliveries>>

\* clearData that forgets to reset the task list
ClearDataKeepingTasks ==
  /\ Simulating
  /\ nClears < MaxClears
  /\ LET S == TriggerUpdate([Store EXCEPT !.messages = <<>>, !.traces = <<>>,
                                          !.userRequests = <<>>,
                                          !.processingRequest = FALSE,
                                          !.conv = Null])
     IN /\ Commit(S)
        /\ last' = Observed("clearData", 0, S)
  /\ nClears' = nClears + 1
  /\ UNCHANGED <<scenario, adapters, activeFramework, calls, nDeliveries>>

ClearData ==
  /\ Simulating
  /\ nClears < MaxClears
  /\ LET S == TriggerUpdate([Store EXCEPT !.messages = <<>>, !.traces = <<>>,
                                          !.tasks = <<>>, !.userRequests = <<>>,
                                          !.processingRequest = FALSE,
                                          !.conv = Null])
     IN /\ Commit(S)
        /\ last' = Observed("clearData", 0, S)
  /\ nClears' = nClears + 1
  /\ UNCHANGED <<scenario, adapters, activeFramework, calls, nDeliveries>>

------------------------------------------------------------------------------
(* What an adapter's sendMessage may hand back *)

\* convertAutoGenAgentToId / convertRasaAgentToId: the static name -> id table,
\* an unmapped name passed through
ConvertAgentToId(adapter, name) ==
  CASE name = "UserProxyAgent" /\ adapter = "autogen" -> "coordinator-1"
    [] name = "CoordinatorAgent" /\ adapter = "rasa"  -> "coordinator-1"
    [] name = "ResearchAssistant" /\ adapter = "autogen" -> "researcher-1"
    [] name = "ResearchAgent" /\ adapter = "rasa"     -> "researcher-1"
    [] name = "PlanningAgent" /\ adapter = "autogen"  -> "planner-1"
    [] name = "PlannerAgent" /\ adapter = "rasa"      -> "planner-1"
    [] name = "ExecutionAgent"                        -> "executor-1"
    [] OTHER -> name

CoordinatorName(adapter) ==
  IF adapter = "autogen" THEN "UserProxyAgent" ELSE "CoordinatorAgent"

EmptyBatch == [messages |-> <<>>, traces |-> <<>>, tasks |-> <<>>]

\* The batch of a completed round trip: the adapter ran its agents to the end
\* before returning, so its tasks arrive completed.
FullBatch(req, adapter, text) ==
  [messages |->
     << [sender |-> "user", recipient |-> CoordinatorName(adapter),
         content |-> Content("user", "request", text)],
        [sender |-> "ExecutionAgent", recipient |-> CoordinatorName(adapter),
         content |-> Content(adapter, "solution", text)],
        [sender |-> CoordinatorName(adapter), recipient |-> "user",
         content |-> Content(adapter, "solution", text)] >>,
   traces |-> << [agentId |-> "coordinator-1", action |-> "response_delivered",
                  req |-> req] >>,
   tasks |-> << [id |-> TaskId(req, adapter), assignedTo |-> "executor-1",
                 status |-> "completed", result |-> Content(adapter, "solution", text),
                 completedAt |-> TRUE, by |-> "adapter"] >>]

AdapterBatches(req, adapter, text) == {EmptyBatch, FullBatch(req, adapter, text)}

RECURSIVE AddBatchMessages(_, _, _, _, _)
\* result.messages.forEach(msg => { if (msg.sender !== 'user') addMessage(..) })
AddBatchMessages(S, req, adapter, msgs, i) ==
  IF i > Len(msgs) THEN S
  ELSE AddBatchMessages(
         IF msgs[i].sender = "user" THEN S
         ELSE AddMessage(S, req, ConvertAgentToId(adapter, msgs[i].sender),
                         ConvertAgentToId(adapter, msgs[i].recipient),
                         msgs[i].content,
                         IF msgs[i].recipient = "user" THEN "response" ELSE "internal"),
         req, adapter, msgs, i + 1)

\* processWithAutogen / processWithRasa once sendMessage has returned a batch:
\* messages one by one through addMessage, traces and tasks pushed, one
\* notification at the end.
ProcessBatch(S, req, adapter, batch) ==
  LET S1 == AddBatchMessages(S, req, adapter, batch.messages, 1)
  IN IF S1.err # NoErr THEN S1
     ELSE TriggerUpdate([S1 EXCEPT !.traces = @ \o batch.traces,
                                   !.tasks = @ \o batch.tasks])

------------------------------------------------------------------------------
(* submitUserRequest of the simulating store, stretch by stretch *)

\* Where a stretch ends: at an await (pc), or at the end of the try body
Await(S, pc, path, k) == [S |-> S, pc |-> pc, path |-> path, k |-> k]

StartSim(S, req, text, path) ==
  Await(AddTrace(AddMessage(S, req, "user", "coordinator-1",
                            Content("user", "request", text), "request"),
                 req, "coordinator-1", "received_request"),
        "delay", path, 1)

\* The framework tests that follow the autogen test of the if-chain
DispatchRest(S, req, text, fw) ==
  CASE fw = "langchain" -> StartSim(S, req, text, "langchain")
    [] fw = "rasa"      -> Await(S, "connect", "rasa", 0)
    [] OTHER            -> StartSim(S, req, text, "native")

DispatchFirst(S, req, text, fw) ==
  IF fw = "autogen" THEN Await(S, "connect", "autogen", 0)
  ELSE DispatchRest(S, req, text, fw)

SendToAdapter(S, req, text, adapter) ==
  Await(AddTrace(AddMessage(S, req, "user", "coordinator-1",
                            Content("user", "request", text), "request"),
                 req, "coordinator-1", "received_request"),
        "send", adapter, 0)

ProcessWithAdapter(S, req, text, adapter) ==
  IF S.conv = Null THEN Await(S, "create", adapter, 0)
  ELSE SendToAdapter(S, req, text, adapter)

------------------------------------------------------------------------------
(* The current store: batches through handleNew*, and its call bodies *)

\* The agent a direct message is addressed to
DirectAgent == "executor-1"

ValidateMessageType(type) ==
  IF type \in {"response", "request", "internal"} THEN type ELSE "response"

\* handleNewMessages: this.messages = [...this.messages, ...validated]; notify
HandleNewMessages(S, req, msgs) ==
  IF S.err # NoErr THEN S
  ELSE TriggerUpdate(
         [S EXCEPT !.messages = @ \o [i \in 1..Len(msgs) |->
                      [from |-> msgs[i].from, to |-> msgs[i].to,
                       content |-> msgs[i].content,
                       type |-> ValidateMessageType(msgs[i].type),
                       ts |-> S.tick, req |-> req]],
                   !.emitted = @ + Len(msgs)])

\* handleNewTraces: this.traces = [...this.traces, ...traces]; notify
HandleNewTraces(S, trs) ==
  IF S.err # NoErr THEN S
  ELSE TriggerUpdate([S EXCEPT !.traces = @ \o trs])

RECURSIVE UpsertAppending(_, _, _)
\* tasks.forEach that pushes every delivered task
UpsertAppending(stored, new, i) ==
  IF i > Len(new) THEN stored
  ELSE UpsertAppending(Append(stored, new[i]), new, i + 1)

RECURSIVE Upsert(_, _, _)
\* tasks.forEach: replace the stored task of the same id, else push
Upsert(stored, new, i) ==
  IF i > Len(new) THEN stored
  ELSE LET j == FindIndex(stored, new[i].id, 1)
       IN Upsert(IF j = 0 THEN Append(stored, new[i])
                 ELSE [stored EXCEPT ![j] = new[i]], new, i + 1)

HandleNewTasks(S, tks) ==
  IF S.err # NoErr THEN S
  ELSE TriggerUpdate([S EXCEPT !.tasks = Upsert(@, tks, 1)])

\* try { processing = true; notifyUpdate(); messages.push(userMessage);
\*       notifyUpdate(); ..
BeginCall(S, c, to, text, type) ==
  AddMessage(TriggerUpdate([S EXCEPT !.processingRequest = TRUE]),
             c, "user", to, Content("user", "request", text), type)

\* The framework branch of submitUserRequest / sendDirectMessage, up to its
\* first await or to the end of the try body.
BranchOf(S, c, fw, direct) ==
  CASE fw = "autogen" ->
         Await(S, IF S.conv = Null THEN "create" ELSE "send", "autogen", 0)
    [] fw = "rasa" -> Await(S, "create", "rasa", 0)
    [] OTHER ->
         LET label == IF fw = "langchain" THEN "langchain_not_implemented"
                      ELSE "native_not_implemented"
         IN Await(IF direct
                  THEN AddTrace(AddTrace(S, c, DirectAgent, "direct_message_received"),
                                c, DirectAgent, label)
                  ELSE AddTrace(S, c, "coordinator-1", label),
                  "return", IF fw = "langchain" THEN "langchain" ELSE "native", 0)

\* processWithRasa once sendMessage has returned: each non-empty part of the
\* response through its handler.
HandleResponse(S, c, batch) ==
  LET S1 == IF batch.messages = <<>> THEN S
            ELSE HandleNewMessages(S, c,
                   [i \in 1..Len(batch.messages) |->
                      [from |-> batch.messages[i].sender,
                       to |-> batch.messages[i].recipient,
                       content |-> batch.messages[i].content,
                       type |-> "response"]])
      S2 == IF batch.traces = <<>> THEN S1 ELSE HandleNewTraces(S1, batch.traces)
  IN IF batch.tasks = <<>> THEN S2 ELSE HandleNewTasks(S2, batch.tasks)

\* What the adapter's push channel may deliver
PushedMessages ==
  { << [from |-> "researcher-1", to |-> "user",
        content |-> Content("pushed", "message", "plain"), type |-> t] >> :
      t \in {"response", "status"} }

PushedTraces ==
  { << [agentId |-> "researcher-1", action |-> "research_started", req |-> 0] >> }

PushedTasks ==
  { << [id |-> TaskId(0, "pushed"), assignedTo |-> "researcher-1", status |-> st,
        result |-> NoContent, completedAt |-> st = "completed", by |-> "adapter"] >> :
      st \in {"pending", "in-progress", "completed"} }

\* The tasks a batch may hold, and the batches handleNewTasks may be called
\* with: a task or task_update frame (one task), the tasks of a response
\* (here up to two, the same id twice included)
DeliveredTasks ==
  { [id |-> TaskId(0, n), assignedTo |-> "researcher-1", status |-> st,
     result |-> NoContent, completedAt |-> st = "completed", by |-> "adapter"] :
      n \in {"pushed", "other"}, st \in {"pending", "in-progress", "completed"} }

TaskBatches ==
  {<<t>> : t \in DeliveredTasks} \cup {<<t, u>> : t, u \in DeliveredTasks}

\* Settling the try body of call c: the status update at its end, or catch.
Settle(S, c, direct) ==
  IF Simulating
  THEN IF S.err = NoErr THEN CompleteRequest(S, c) ELSE FailRequest(S, c)
  ELSE IF S.err = NoErr THEN S
       ELSE AddTrace([S EXCEPT !.err = NoErr], c,
                     IF direct THEN DirectAgent ELSE "coordinator-1", "error")

\* The end of a stretch of call c: suspend at the await, or leave the try
\* body (normally or by the exception in flight), run catch and finally and
\* settle the promise.
Advance(c, op, text, direct, R) ==
  LET leaves == R.S.err # NoErr \/ R.pc = "return"
      T == IF ~leaves THEN R.S ELSE Finally(Settle(R.S, c, direct))
  IN /\ Commit(T)
     /\ calls' = [calls EXCEPT ![c] =
          [@ EXCEPT !.pc = IF leaves THEN "done" ELSE R.pc,
                    !.k = IF leaves THEN 0 ELSE R.k,
                    !.path = R.path,
                    !.text = text,
                    !.direct = direct,
                    !.ur = Alias(T, c, @),
                    !.outcome = IF ~leaves THEN @
                                ELSE IF T.err = NoErr THEN "resolved" ELSE "rejected",
                    !.nMsg = @ + T.emitted,
                    !.tryOk = leaves /\ R.S.err = NoErr,
                    !.caught = leaves /\ R.S.err # NoErr,
                    !.refused = @ \/ R.S.refused,
                    !.sent = IF ~leaves /\ R.pc = "send" THEN R.S.conv ELSE @]]
     /\ last' = Observed(op, c, T)

NextRequest == Cardinality({c \in ReqIds : calls[c].pc # "idle"}) + 1

SubmitUserRequest(text) ==
  /\ Simulating
  /\ ~processingRequest
  /\ NextRequest <= MaxRequests
  /\ LET c  == NextRequest
         ur == [id |-> c, content |-> text, status |-> "processing",
                result |-> NoContent]
         S1 == TriggerUpdate([Store EXCEPT !.processingRequest = TRUE,
                                           !.userRequests = Append(@, ur)])
     IN IF S1.err # NoErr
        THEN \* thrown before the try block: nothing catches it
             /\ Commit(S1)
             /\ calls' = [calls EXCEPT ![c] =
                  [@ EXCEPT !.pc = "done", !.text = text,
                            !.ur = Alias(S1, c, @), !.outcome = "rejected"]]
             /\ last' = Observed("submit", c, S1)
        ELSE Advance(c, "submit", text, FALSE,
                     DispatchFirst(S1, c, text, activeFramework))
  /\ UNCHANGED <<scenario, adapters, activeFramework, nClears, nDeliveries>>

\* The single-flight guard: throw new Error('Already processing a request...')
SubmitRejected ==
  /\ Simulating
  /\ processingRequest
  /\ last' = [NoStep EXCEPT !.op = "submit_rejected", !.threw = TRUE]
  /\ UNCHANGED <<scenario, adapters, messages, traces, tasks, userRequests, processingRequest,
                 onUpdateCallbacks, activeFramework, currentConversationId, calls,
                 nClears, nDeliveries>>

\* A delay(ms) timer of call c fires.
DelayElapsed(c) ==
  /\ Simulating
  /\ calls[c].pc = "delay"
  /\ LET k == calls[c].k
         S == SimSegment(Store, c, calls[c].path, calls[c].text, k)
     IN Advance(c, "step", calls[c].text, FALSE,
                IF k = NumDelays THEN Await(S, "return", calls[c].path, 0)
                ELSE Await(S, "delay", calls[c].path, k + 1))
  /\ UNCHANGED <<scenario, adapters, activeFramework, nClears, nDeliveries>>

\* await autogenAdapter.connect() / rasaAdapter.connect() of call c returns ok.
ConnectReturns(c, ok) ==
  /\ Simulating
  /\ calls[c].pc = "connect"
  /\ LET a == calls[c].path
         t == calls[c].text
     IN Advance(c, "step", t, FALSE,
                IF ok THEN ProcessWithAdapter(Store, c, t, a)
                ELSE IF a = "autogen"
                THEN DispatchRest([Store EXCEPT !.refused = TRUE], c, t,
                                  activeFramework)
                ELSE StartSim([Store EXCEPT !.refused = TRUE], c, t, "native"))
  /\ UNCHANGED <<scenario, adapters, activeFramework, nClears, nDeliveries>>

\* await createConversation() of call c returns an id or null, or throws.
CreateReturns(c, r) ==
  /\ Simulating
  /\ calls[c].pc = "create"
  /\ LET a == calls[c].path
         t == calls[c].text
     IN Advance(c, "step", t, FALSE,
                CASE r = "id"   -> SendToAdapter([Store EXCEPT !.conv = a], c, t, a)
                  [] r = "null" -> Await([Store EXCEPT !.conv = Null, !.refused = TRUE,
                                                       !.err = "Failed to create conversation"],
                                         "return", a, 0)
                  [] OTHER      -> Await([Store EXCEPT !.refused = TRUE,
                                                       !.err = "createConversation threw"],
                                         "return", a, 0))
  /\ UNCHANGED <<scenario, adapters, activeFramework, nClears, nDeliveries>>

\* await sendMessage(..) of call c returns null (the adapter caught a
\* transport failure, or RasaAdapter does not find the conversation in its
\* map) or a batch.
SendReturns(c, isNull, batch) ==
  /\ Simulating
  /\ calls[c].pc = "send"
  /\ (calls[c].path = "rasa" /\ calls[c].sent # "rasa") => isNull
  /\ LET a == calls[c].path
     IN Advance(c, IF isNull THEN "send_failed" ELSE "step", calls[c].text, FALSE,
                Await(IF isNull THEN [Store EXCEPT !.err = "processing failed"]
                      ELSE ProcessBatch(Store, c, a, batch),
                      "return", a, 0))
  /\ UNCHANGED <<scenario, adapters, activeFramework, nClears, nDeliveries>>

------------------------------------------------------------------------------
(* submitUserRequest / sendDirectMessage of the current store *)

\* No guard: every call is accepted.
SubmitCurrent(text, direct) ==
  /\ scenario = "current"
  /\ NextRequest <= MaxRequests
  /\ LET c == NextRequest
         S == BeginCall(Store, c, IF direct THEN DirectAgent ELSE "coordinator-1",
                        text, IF direct THEN "internal" ELSE "request")
     IN Advance(c, "submit", text, direct, BranchOf(S, c, activeFramework, direct))
  /\ UNCHANGED <<scenario, adapters, activeFramework, nClears, nDeliveries>>

\* await createConversation() of call c returns an id or null, or throws.
CurrentCreateReturns(c, r) ==
  /\ scenario = "current"
  /\ calls[c].pc = "create"
  /\ LET a == calls[c].path
         S == IF a = "autogen"
              THEN [Store EXCEPT !.conv = IF r = "id" THEN a
                                          ELSE IF r = "null" THEN Null ELSE @]
              ELSE Store
     IN Advance(c, "step", calls[c].text, calls[c].direct,
                CASE r = "id"   -> Await(S, "send", a, 0)
                  [] r = "null" -> Await([S EXCEPT !.refused = TRUE,
                                                   !.err = "Failed to create conversation"],
                                         "return", a, 0)
                  [] OTHER      -> Await([S EXCEPT !.refused = TRUE,
                                                   !.err = "createConversation threw"],
                                         "return", a, 0))
  /\ UNCHANGED <<scenario, adapters, activeFramework, nClears, nDeliveries>>

\* await sendMessage(..) of call c returns null or a batch: the AutoGen
\* branch ignores the value, the Rasa branch hands a batch to the handlers.
CurrentSendReturns(c, isNull, batch) ==
  /\ scenario = "current"
  /\ calls[c].pc = "send"
  /\ LET a == calls[c].path
     IN Advance(c, IF isNull THEN "send_failed" ELSE "step", calls[c].text,
                calls[c].direct,
                Await(IF a = "autogen" \/ isNull THEN Store
                      ELSE HandleResponse(Store, c, batch),
                      "return", a, 0))
  /\ UNCHANGED <<scenario, adapters, activeFramework, nClears, nDeliveries>>

\* The adapter's channel delivers a batch to the handler registered in the
\* constructor.
Deliver(kind, batch) ==
  /\ Pushing
  /\ nDeliveries < (IF scenario = "delivery" THEN MaxBatches ELSE MaxDeliveries)
  /\ LET S == CASE kind = "messages" -> HandleNewMessages(Store, 0, batch)
                [] kind = "traces"   -> HandleNewTraces(Store, batch)
                [] OTHER             -> HandleNewTasks(Store, batch)
     IN /\ Commit(S)
        /\ last' = Observed("deliver", 0, S)
  /\ nDeliveries' = nDeliveries + 1
  /\ UNCHANGED <<scenario, adapters, activeFramework, calls, nClears>>

------------------------------------------------------------------------------
(* The adapters' methods and event handlers *)

\* WebSocket.close(): no effect on a socket that is closing or closed
CloseSocket(socks, s) ==
  IF s = 0 THEN socks
  ELSE [socks EXCEPT ![s] = CASE @ = "CONNECTING" -> "FAILING"
                              [] @ = "OPEN"       -> "CLOSING"
                              [] OTHER            -> @]

IsOpen(A) == A.websocket # 0 /\ A.sockets[A.websocket] = "OPEN"

\* Whether connectWebSocket would construct a socket
NeedsSocket(A) == ~(A.variant = "backoff" /\ IsOpen(A))

\* connectWebSocket up to the installation of the handlers.  pending is the
\* socket whose open or error settles the returned promise, 0 when the
\* promise is resolved at once (backoff, socket already open).
ConnectWebSocket(A) ==
  IF ~NeedsSocket(A) THEN [A |-> A, pending |-> 0]
  ELSE LET socks == CloseSocket(A.sockets, A.websocket)
       IN [A |-> [A EXCEPT !.sockets = Append(socks, "CONNECTING"),
                           !.websocket = Len(socks) + 1],
           pending |-> Len(socks) + 1]

\* createConversation past the connection check: uuidv4(), conversations.set
Allocate(A) ==
  LET id == A.uuid + 1
  IN [A EXCEPT !.uuid = id, !.currentConversationId = id,
               !.conversations = @ \cup {id},
               !.create = [@ EXCEPT !.pc = "idle", !.result = "id", !.id = id,
                                    !.fresh = id \notin A.conversations,
                                    !.recorded = TRUE]]

\* RasaAdapter.createConversation past `await this.connect()`: uuidv4(),
\* conversations.set, then the initialisation delay
RasaAllocate(A) ==
  LET id == A.uuid + 1
  IN [A EXCEPT !.uuid = id, !.conversations = @ \cup {id},
               !.create = [@ EXCEPT !.pc = "init", !.id = id,
                                    !.fresh = id \notin A.conversations,
                                    !.recorded = TRUE]]

\* createConversation that allocates whatever connect() answered
CreateResumesUnchecked(A, connected) ==
  IF A.variant = "rasa"
  THEN RasaAllocate([A EXCEPT !.create.connected = Answer(connected)])
  ELSE Allocate([A EXCEPT !.create.connected = Answer(connected)])

\* createConversation resumed by connect().  AutoGenAdapter: throw when it
\* answered false (caught, toast.error, rethrown), allocate otherwise.
\* RasaAdapter: the answer is not read.
CreateResumes(A, connected) ==
  IF A.variant = "rasa"
  THEN RasaAllocate([A EXCEPT !.create.connected = Answer(connected)])
  ELSE IF connected
  THEN Allocate([A EXCEPT !.create.connected = Answer(connected)])
  ELSE [A EXCEPT !.create = [@ EXCEPT !.pc = "idle", !.result = "throws",
                                      !.connected = Answer(connected)]]

\* resolve(result) / return result in connect(): the run held by slot ends
\* and every caller holding its promise resumes; finally clears connectPromise
SettleConnect(A, slot, result) ==
  LET waiters == {w \in Slots : w = slot \/ A.conn[w].pc = "shared"}
      done == [A.conn[slot] EXCEPT !.pc = "idle", !.sock = 0, !.result = Answer(result)]
      B == [A EXCEPT !.connectPromise = "none",
                     !.conn = [w \in Slots |->
                                 IF w \in waiters THEN done ELSE A.conn[w]]]
  IN IF "create" \in waiters THEN CreateResumes(B, result) ELSE B

\* this.isConnected = v inside the connect() run of slot
SetConnected(A, slot, v) ==
  [A EXCEPT !.isConnected = v,
            !.conn[slot].changed = @ \/ (A.isConnected # v)]

\* toast.error(...) inside the connect() run of slot
ToastError(A, slot) == [A EXCEPT !.conn[slot].notified = TRUE]

\* connect() that starts a status probe at every call
BeginConnectAlways(A, slot) ==
  [A EXCEPT !.conn[slot] =
              [IdleConn EXCEPT
                 !.pc = IF A.variant = "rasa" THEN "delay" ELSE "probe"],
            !.connectPromise = IF A.variant = "backoff" THEN slot ELSE @]

\* connect() from its first statement to its first await: the status probe,
\* or RasaAdapter's connection delay
BeginConnect(A, slot) ==
  IF A.variant = "backoff" /\ A.connectPromise # "none"
  THEN [A EXCEPT !.conn[slot] = [IdleConn EXCEPT !.pc = "shared"]]
  ELSE [A EXCEPT !.conn[slot] =
                    [IdleConn EXCEPT
                       !.pc = IF A.variant = "rasa" THEN "delay" ELSE "probe"],
                 !.connectPromise =
                    IF A.variant = "backoff" THEN slot ELSE @]

\* connect() resumed by the status probe.  outcome: "throws" (fetch or
\* response.json() rejected), "not_ok" (HTTP error status), "not_ready"
\* (autogen_installed or openai_api_key_configured false), "ready".
ProbeResumes(A, slot, outcome) ==
  CASE outcome = "throws" ->
         SettleConnect(SetConnected(ToastError(A, slot), slot, FALSE), slot, FALSE)
    [] outcome = "not_ok" ->
         IF A.variant = "backoff"
         THEN SettleConnect(SetConnected(A, slot, FALSE), slot, FALSE)
         ELSE SettleConnect(SetConnected(ToastError(A, slot), slot, FALSE),
                            slot, FALSE)
    [] outcome = "not_ready" ->
         IF A.variant = "backoff"
         THEN SettleConnect(SetConnected(ToastError(A, slot), slot, FALSE),
                            slot, FALSE)
         ELSE SettleConnect(ToastError(A, slot), slot, FALSE)
    [] OTHER ->
         LET W == ConnectWebSocket(A)
             B == [W.A EXCEPT !.conn[slot].changed = @ \/ (W.pending # 0)]
         IN IF A.variant = "backoff" /\ W.pending # 0
            THEN [B EXCEPT !.conn[slot].pc = "ws", !.conn[slot].sock = W.pending]
            ELSE SettleConnect(SetConnected(B, slot, TRUE), slot, TRUE)

\* The connect() run awaiting the promise of socket s, if any
Awaiting(A, s) == {w \in Slots : A.conn[w].pc = "ws" /\ A.conn[w].sock = s}

\* websocket.onopen, and what its resolve() resumes; intervals is the number
\* of keep-alive intervals that are running
OnOpen(A, s) ==
  LET B == [A EXCEPT !.scheduled = <<>>, !.intervals = @ + 1]
  IN IF A.variant = "fixed" THEN B
     ELSE LET C == [B EXCEPT !.reconnectAttempts = 0, !.isConnected = TRUE]
          IN IF Awaiting(A, s) = {} THEN C
             ELSE LET w == CHOOSE w \in Awaiting(A, s) : TRUE
                  IN SettleConnect(SetConnected(C, w, TRUE), w, TRUE)

\* websocket.onerror, and what its reject() resumes
OnError(A, s) ==
  LET B == [A EXCEPT !.isConnected = FALSE]
  IN IF A.variant = "fixed" \/ Awaiting(A, s) = {} THEN B
     ELSE LET w == CHOOSE w \in Awaiting(A, s) : TRUE
          IN SettleConnect(SetConnected(ToastError(B, w), w, FALSE), w, FALSE)

\* One tick of a keep-alive interval: a frame {type: "ping"} on
\* this.websocket when that socket is open (no field is written); otherwise
\* clearInterval, in the adapter that keeps the interval's handle
OnPingInterval(A) ==
  IF IsOpen(A) THEN A
  ELSE IF A.variant = "backoff" THEN [A EXCEPT !.intervals = @ - 1]
       ELSE A

\* websocket.onclose
OnClose(A, s) ==
  LET B == [A EXCEPT !.isConnected = FALSE]
  IN IF A.variant = "fixed"
     THEN [B EXCEPT !.timers = @ + 1, !.scheduled = Append(@, FixedDelay)]
     ELSE IF B.reconnectAttempts < MaxReconnectAttempts
          THEN [B EXCEPT !.reconnectAttempts = @ + 1, !.timers = @ + 1,
                         !.scheduled =
                            Append(@, BackoffDelay(B.reconnectAttempts + 1))]
          ELSE [B EXCEPT !.gaveUp = TRUE]

\* The adapter as a step finds it: the answers of the calls that have
\* returned were taken by their callers (they are observable in the state
\* that follows the return, and nowhere later).
Adapter ==
  [adapters EXCEPT
     !.conn = [w \in Slots |-> IF @[w].pc = "idle" THEN IdleConn ELSE @[w]],
     !.create = IF @.pc = "idle" THEN IdleCreate ELSE @]

\* One step of the adapter: the store is not touched
AdapterStep(A) ==
  /\ adapters' = A
  /\ last' = [NoStep EXCEPT !.op = "adapter"]
  /\ UNCHANGED <<scenario, messages, traces, tasks, userRequests,
                 processingRequest, onUpdateCallbacks, activeFramework,
                 currentConversationId, calls, nClears, nDeliveries>>

\* A client calls connect()
Connect ==
  /\ adapters.conn["direct"].pc = "idle"
  /\ AdapterStep(BeginConnect(Adapter, "direct"))

\* A client calls createConversation()
CreateConversation ==
  /\ adapters.create.pc = "idle"
  /\ adapters.uuid < MaxCreates
  /\ LET A == [Adapter EXCEPT !.create.wasConnected = adapters.isConnected]
     IN AdapterStep(
          IF ~adapters.isConnected
          THEN BeginConnect([A EXCEPT !.create.pc = "connect"], "create")
          ELSE IF adapters.variant = "rasa" THEN RasaAllocate(A)
          ELSE Allocate(A))

\* The status probe of an AutoGen connect() run answers
ProbeReturns(slot, outcome) ==
  /\ adapters.conn[slot].pc = "probe"
  /\ (outcome = "ready" /\ NeedsSocket(adapters))
       => Len(adapters.sockets) < MaxSockets
  /\ AdapterStep(ProbeResumes(Adapter, slot, outcome))

\* The connection delay of a Rasa connect() run elapses
RasaConnected(slot) ==
  /\ adapters.conn[slot].pc = "delay"
  /\ AdapterStep(SettleConnect(SetConnected(Adapter, slot, TRUE), slot, TRUE))

\* The initialisation delay of RasaAdapter.createConversation elapses
RasaInitialised ==
  /\ adapters.create.pc = "init"
  /\ AdapterStep([Adapter EXCEPT
       !.create.pc = "idle",
       !.create.result =
          IF adapters.create.id \in adapters.conversations THEN "id" ELSE "null"])

\* The open event of socket s
SocketOpens(s) ==
  /\ s \in 1..Len(adapters.sockets)
  /\ adapters.sockets[s] = "CONNECTING"
  /\ AdapterStep(OnOpen([Adapter EXCEPT !.sockets[s] = "OPEN"], s))

\* Socket s closes: its error event (always when the connection failed before
\* it opened, sometimes when an open connection drops) and its close event
SocketCloses(s, withError) ==
  /\ s \in 1..Len(adapters.sockets)
  /\ adapters.sockets[s] \in {"CONNECTING", "OPEN", "FAILING", "CLOSING"}
  /\ adapters.sockets[s] \in {"CONNECTING", "FAILING"} => withError
  /\ adapters.sockets[s] = "CLOSING" => ~withError
  /\ LET A == [Adapter EXCEPT !.sockets[s] = "CLOSED"]
     IN AdapterStep(OnClose(IF withError THEN OnError(A, s) ELSE A, s))

\* A keep-alive interval ticks
PingIntervalFires ==
  /\ adapters.intervals > 0
  /\ AdapterStep(OnPingInterval(Adapter))

\* A reconnect timer fires: connectWebSocket(), its promise dropped
ReconnectTimerFires ==
  /\ adapters.timers > 0
  /\ NeedsSocket(adapters) => Len(adapters.sockets) < MaxSockets
  /\ AdapterStep(ConnectWebSocket([Adapter EXCEPT !.timers = @ - 1]).A)

------------------------------------------------------------------------------
(* The client sessions *)

Idle == \A c \in ReqIds : calls[c].pc \in {"idle", "done"}

\* The submitUserRequest calls that have been accepted and have not settled
InFlight == {c \in ReqIds : calls[c].pc \notin {"idle", "done"}}

\* The resumptions of the simulating store's suspended calls
Resume ==
  \/ \E c \in ReqIds : DelayElapsed(c)
  \/ \E c \in ReqIds, ok \in BOOLEAN : ConnectReturns(c, ok)
  \/ \E c \in ReqIds, r \in {"id", "null", "throws"} : CreateReturns(c, r)
  \/ \E c \in ReqIds : SendReturns(c, TRUE, EmptyBatch)
  \/ \E c \in ReqIds :
       \E b \in AdapterBatches(c, calls[c].path, calls[c].text) :
         SendReturns(c, FALSE, b)

\* The dashboard: subscribers come and go, the framework is switched and the
\* store is reset at any moment, while the first request runs.
NextDashboard ==
  \/ \E cb \in Callbacks : RegisterUpdateCallback(cb)
  \/ \E cb \in Callbacks : UnregisterUpdateCallback(cb)
  \/ \E fw \in Frameworks : SetFramework(fw)
  \/ ClearData
  \/ \E text \in Texts : NextRequest = 1 /\ SubmitUserRequest(text)
  \/ SubmitRejected
  \/ Resume

\* One request after another, without subscribers; the framework is switched
\* and the store is reset between requests.
NextSequence ==
  \/ \E fw \in Frameworks : Idle /\ SetFramework(fw)
  \/ Idle /\ ClearData
  \/ \E text \in PlainTexts : SubmitUserRequest(text)
  \/ SubmitRejected
  \/ Resume

\* The current store: calls overlap freely, the push channel delivers at any
\* moment, the framework is switched between calls; no subscribers.
NextCurrent ==
  \/ \E fw \in Frameworks : Idle /\ SetFramework(fw)
  \/ \E text \in PlainTexts, direct \in BOOLEAN : SubmitCurrent(text, direct)
  \/ \E c \in ReqIds, r \in {"id", "null", "throws"} : CurrentCreateReturns(c, r)
  \/ \E c \in ReqIds : CurrentSendReturns(c, TRUE, EmptyBatch)
  \/ \E c \in ReqIds :
       \E b \in AdapterBatches(c, calls[c].path, calls[c].text) :
         CurrentSendReturns(c, FALSE, b)
  \/ \E b \in PushedMessages : Deliver("messages", b)
  \/ \E b \in PushedTraces : Deliver("traces", b)
  \/ \E b \in PushedTasks : Deliver("tasks", b)

\* The store as the adapters' callbacks see it: one delivery after another,
\* task batches of one or two tasks.
NextDelivery ==
  \/ \E b \in PushedMessages : Deliver("messages", b)
  \/ \E b \in PushedTraces : Deliver("traces", b)
  \/ \E b \in TaskBatches : Deliver("tasks", b)

\* Of the requests in flight, all but the oldest are within their first
\* MaxOverlap delays (the schedules explored by the reset session).
OverlapBounded ==
  \A c, d \in InFlight : c < d => calls[d].k <= MaxOverlap

\* Requests and resets: the store is reset at any moment, also while a
\* request runs, and requests are submitted whenever the caller likes; the
\* framework is switched between requests; no subscribers.
NextReset ==
  \/ \E fw \in Frameworks : Idle /\ SetFramework(fw)
  \/ ClearData
  \/ \E text \in PlainTexts : SubmitUserRequest(text)
  \/ SubmitRejected
  \/ Resume /\ OverlapBounded'

\* One adapter singleton and its clients: connect() and createConversation()
\* calls, the answers of the backend, the events of the sockets, the timers.
NextAdapter ==
  \/ Connect
  \/ CreateConversation
  \/ \E slot \in Slots, outcome \in {"throws", "not_ok", "not_ready", "ready"} :
       ProbeReturns(slot, outcome)
  \/ \E slot \in Slots : RasaConnected(slot)
  \/ RasaInitialised
  \/ \E s \in 1..MaxSockets : SocketOpens(s)
  \/ \E s \in 1..MaxSockets, withError \in BOOLEAN : SocketCloses(s, withError)
  \/ ReconnectTimerFires
  \/ PingIntervalFires

Next ==
  \/ scenario = "dashboard" /\ NextDashboard
  \/ scenario = "sequence" /\ NextSequence
  \/ scenario = "current" /\ NextCurrent
  \/ scenario = "adapter" /\ NextAdapter
  \/ scenario = "reset" /\ NextReset
  \/ scenario = "delivery" /\ NextDelivery

Spec == Init /\ [][Next]_vars

InitDashboard == Init /\ scenario = "dashboard"

SpecDashboard == InitDashboard /\ [][NextDashboard]_vars

InitSequence == Init /\ scenario = "sequence"

SpecSequence == InitSequence /\ [][NextSequence]_vars

InitCurrent == Init /\ scenario = "current"

SpecCurrent == InitCurrent /\ [][NextCurrent]_vars

InitAdapter == Init /\ scenario = "adapter"

SpecAdapter == InitAdapter /\ [][NextAdapter]_vars

InitReset == Init /\ scenario = "reset"

SpecReset == InitReset /\ [][NextReset]_vars

InitDelivery == Init /\ scenario = "delivery"

SpecDelivery == InitDelivery /\ [][NextDelivery]_vars

------------------------------------------------------------------------------
(* Properties *)

\* The trace action labels that call c appended, as far as they are in the log
Labels(c) ==
  LET t == SelectSeq(traces, LAMBDA x : x.req = c)
  IN [i \in 1..Len(t) |-> t[i].action]

NativeLabels ==
  << "received_request", "analyzing_request", "research_started",
     "research_completed", "planning_started", "planning_completed",
     "execution_started", "execution_completed", "reviewing_solution",
     "solution_approved", "response_delivered" >>

\* C1 -- Single-flight: a submitUserRequest call issued while an earlier call
\* has not settled is rejected with the 'already processing' error and leaves
\* messages, traces, tasks and userRequests as they were.
C1_SingleFlight ==
  [][ (~Idle /\ (NextRequest' > NextRequest \/ last'.op = "submit_rejected"))
        => /\ last'.op = "submit_rejected"
           /\ last'.threw
           /\ UNCHANGED <<messages, traces, tasks, userRequests>> ]_vars

\* C2 -- isProcessing() is true at every state in which an accepted
\* submitUserRequest / sendDirectMessage call has not yet settled, and false
\* at every state in which no call is in flight.
C2_ProcessingWhileInFlight == processingRequest <=> ~Idle

\* C3 -- Determinism of the native path: when a request submitted on the
\* native path has run to the end of its processing, the labels it appended
\* to the trace log are exactly the eleven labels received_request ..
\* response_delivered, in that order.
C3_NativeLabels ==
  \A c \in ReqIds :
    (last.req = c /\ calls[c].pc = "done" /\ calls[c].tryOk
       /\ calls[c].path = "native" /\ ~calls[c].direct)
      => Labels(c) = NativeLabels

\* The step a task takes from one state to the next is a step of the
\* lifecycle: it appears as pending, and it stays or moves one status forward.
LifecycleStep(old, new, t) ==
  LET j == FindIndex(old, t.id, 1)
  IN IF j = 0 THEN t.status = "pending"
     ELSE \/ t.status = old[j].status
          \/ old[j].status = "pending" /\ t.status = "in-progress"
          \/ old[j].status = "in-progress" /\ t.status = "completed"

\* C4 -- Task lifecycle, as stated: every task in the store is first seen
\* pending, then in-progress, then completed, never skipping in-progress and
\* never moving backwards.
C4_TaskLifecycle ==
  [][ \A i \in 1..Len(tasks') : LifecycleStep(tasks, tasks', tasks'[i]) ]_vars

\* C4 -- Task lifecycle, amended: every task that the store itself creates
\* (addTask) is first seen pending, then in-progress, then completed, never
\* skipping in-progress and never moving backwards; a task handed over by an
\* adapter is stored with the status the adapter gave it.
C4_StoreTaskLifecycle ==
  [][ \A i \in 1..Len(tasks') :
        tasks'[i].by = "store" => LifecycleStep(tasks, tasks', tasks'[i]) ]_vars

\* A failed request that left one of its tasks completed and a later one
\* in-progress.
C4_Witness ==
  \E c \in ReqIds :
    /\ calls[c].caught
    /\ \E i, j \in 1..Len(tasks) :
         /\ tasks[i].by = "store" /\ tasks[i].status = "completed"
         /\ tasks[j].by = "store" /\ tasks[j].status = "in-progress"

RECURSIVE EmittedUpTo(_)
\* The messages that the calls 1..n created
EmittedUpTo(n) == IF n = 0 THEN 0 ELSE calls[n].nMsg + EmittedUpTo(n - 1)

\* C5 -- Messages and traces are append-only: a step other than clearData
\* leaves every stored message and trace in place, unchanged, and as long as
\* clearData has not been called the number of stored messages is the sum of
\* the messages the requests emitted.
C5_AppendOnly ==
  [][ /\ nClears' = nClears
         => IsPrefix(messages, messages') /\ IsPrefix(traces, traces')
      /\ nClears' = 0 => Len(messages') = EmittedUpTo(MaxRequests)' ]_vars

\* Two successful requests, both having emitted messages, without clearData.
C5_Witness ==
  /\ nClears = 0
  /\ Idle
  /\ calls[1].tryOk /\ calls[1].nMsg > 0
  /\ calls[2].tryOk /\ calls[2].nMsg > 0
  /\ Len(messages) = calls[1].nMsg + calls[2].nMsg

Distinct(s) == \A i, j \in 1..Len(s) : i # j => s[i] # s[j]

Elems(s) == {s[i] : i \in 1..Len(s)}

\* C6 -- Notification fidelity: the notification round after a mutation
\* (addMessage, addTrace, addTask, updateTask of an existing task) that
\* starts with K distinct callbacks registered invokes each of them exactly
\* once, in registration order.
C6_NotificationFidelity ==
  \A n \in 1..Len(last.rounds) :
    (last.rounds[n].after \in {"addMessage", "addTrace", "addTask", "updateTask"}
       /\ Distinct(last.rounds[n].at))
      => last.rounds[n].invoked = last.rounds[n].at

\* C7 -- Unregistering: no callback is invoked once it has been unregistered,
\* also when it is unregistered from inside a callback during the round, and
\* in a step in which no callback throws every callback that stays
\* registered is invoked in every round.
C7_UnregisterStopsInvocation ==
  \A n \in 1..Len(last.rounds) :
    /\ last.rounds[n].unregistered = <<>>
    /\ ~last.threw =>
         (Elems(last.rounds[n].at) \cap Elems(onUpdateCallbacks))
            \subseteq Elems(last.rounds[n].invoked)

\* C8 -- Reset: right after clearData has returned, the four collections are
\* empty, the processing flag is false, and every callback registered at the
\* call has been notified, once.
C8_Reset ==
  (last.op = "clearData" /\ ~last.threw)
    => /\ messages = <<>> /\ traces = <<>> /\ tasks = <<>> /\ userRequests = <<>>
       /\ ~processingRequest
       /\ Len(last.rounds) = 1
       /\ last.rounds[1].invoked = last.rounds[1].at

\* clearData has returned with two subscribers notified, while a request that
\* had already emitted messages is still running.
C8_Witness ==
  /\ last.op = "clearData" /\ ~last.threw
  /\ Len(last.rounds[1].invoked) = 2
  /\ \E c \in ReqIds : calls[c].pc = "delay" /\ calls[c].nMsg > 0

\* The content of the last response-typed message addressed to "user"
LastResponse(msgs) ==
  LET r == SelectSeq(msgs, IsUserResponse)
  IN IF r = <<>> THEN NoContent ELSE r[Len(r)].content

\* C9 -- When a request has succeeded, its UserRequest has status completed,
\* the log holds a response-typed message addressed to "user", and the
\* request's result is the content of the last such message.
C9_CompletedWithResult ==
  \A c \in ReqIds :
    (last.req = c /\ calls[c].pc = "done" /\ calls[c].tryOk)
      => /\ calls[c].ur.status = "completed"
         /\ \E i \in 1..Len(messages) : IsUserResponse(messages[i])
         /\ calls[c].ur.result = LastResponse(messages)

\* C10 -- Failure semantics: the step in which a request's processing throws
\* leaves its UserRequest failed with the error message as result, and leaves
\* every message, trace and task stored before in place.
C10_FailureKeepsRecords ==
  [][ \A c \in ReqIds :
        (calls'[c].caught /\ ~calls[c].caught)
          => /\ calls'[c].ur.status = "failed"
             /\ Len(calls'[c].ur.result) = 2
             /\ calls'[c].ur.result[1] = "Error"
             /\ IsPrefix(messages, messages')
             /\ IsPrefix(traces, traces')
             /\ Len(tasks) <= Len(tasks')
             /\ \A i \in 1..Len(tasks) : tasks'[i].id = tasks[i].id ]_vars

------------------------------------------------------------------------------
(* The adapters *)

\* C11: when the push channel drops the adapter reconnects with capped
\* exponential backoff and a bounded retry count: of the reconnects scheduled
\* since the last successful open, the k-th waits twice as long as the one
\* before it, none waits more than 30 seconds, there are at most
\* maxReconnectAttempts (5) of them, and a successful open resets the attempt
\* counter to zero.
C11_ReconnectBackoff ==
  adapters.variant \in {"backoff", "fixed"} =>
    /\ Len(adapters.scheduled) <= MaxReconnectAttempts
    /\ \A k \in 1..Len(adapters.scheduled) :
         /\ adapters.scheduled[k] <= 30000
         /\ k > 1 => adapters.scheduled[k] =
                       Min(2 * adapters.scheduled[k - 1], 30000)
    /\ adapters.scheduled = <<>> => adapters.reconnectAttempts = 0

\* C12: a transport failure of the adapter's sendMessage reaches the caller,
\* which records it: when the call resumed by the failed sendMessage has run
\* on, the store holds an error trace of that request or its UserRequest has
\* status failed.
C12_SendFailureRecorded ==
  last.op = "send_failed" =>
    \/ \E i \in 1..Len(traces) :
         traces[i].action = "error" /\ traces[i].req = last.req
    \/ \E i \in 1..Len(userRequests) :
         userRequests[i].id = last.req /\ userRequests[i].status = "failed"

\* C13: connect() answers a boolean and never throws; when it answers false it
\* has surfaced a user-visible notification and has given no field of the
\* adapter (connected flag, socket, conversations) a new value.
C13_ConnectContract ==
  \A slot \in Slots :
    /\ adapters.conn[slot].result \in {"none", "true", "false"}
    /\ (adapters.conn[slot].pc = "idle" /\ adapters.conn[slot].result = "false")
         => /\ adapters.conn[slot].notified
            /\ ~adapters.conn[slot].changed

\* C14: createConversation fails when the adapter is not connected and cannot
\* connect: a call made while the connected flag was false and whose connect()
\* answered false returns no identifier (it throws) and records no
\* conversation; a call that returns an identifier was made connected or got
\* true from connect(), recorded the conversation, and its identifier was not
\* the key of any earlier conversation.
C14_CreateNeedsConnection ==
  LET c == adapters.create
  IN /\ (~c.wasConnected /\ c.connected = "false")
          => (c.result = "throws" /\ ~c.recorded)
     /\ c.result = "id"
          => /\ c.wasConnected \/ c.connected = "true"
             /\ c.fresh
             /\ c.id \in adapters.conversations

\* A first call has been given an identifier and a later call, made while not
\* connected, has failed because connect() answered false.
C14_Witness ==
  /\ adapters.create.result = "throws"
  /\ ~adapters.create.wasConnected
  /\ adapters.create.connected = "false"
  /\ adapters.conversations # {}

------------------------------------------------------------------------------
(* Requests to their end *)

\* C15: when an accepted submitUserRequest call settles, the UserRequest it
\* created has status completed or failed, never processing, both in the
\* object handed to the caller and in getUserRequests().
C15_SettledNotProcessing ==
  \A c \in ReqIds :
    (Simulating /\ last.req = c /\ calls[c].pc = "done")
      => /\ calls[c].ur.status \in {"completed", "failed"}
         /\ \E i \in 1..Len(userRequests) :
              /\ userRequests[i].id = c
              /\ userRequests[i].status \in {"completed", "failed"}

\* C16: every message, trace and task is created during a submitUserRequest
\* call: a step that adds or replaces a record in a collection is the start of
\* a call, or is taken while a call is in flight or isProcessing() is true.
C16_CreatedDuringRequest ==
  [][ (messages' # messages \/ traces' # traces \/ tasks' # tasks)
        => \/ last'.op \in {"submit", "clearData"}
           \/ ~Idle
           \/ processingRequest ]_vars

\* C17: adapter connectivity failure is a rejected operation: a request whose
\* adapter answered that it cannot connect or cannot open a conversation ends
\* reported as failed (UserRequest status failed, or an error trace of the
\* request), and is not reported as completed.
C17_ConnectivityFailureRejected ==
  \A c \in ReqIds :
    (last.req = c /\ calls[c].pc = "done" /\ calls[c].refused)
      => /\ calls[c].ur.status # "completed"
         /\ \/ calls[c].ur.status = "failed"
            \/ \E i \in 1..Len(traces) :
                 traces[i].action = "error" /\ traces[i].req = c

------------------------------------------------------------------------------
(* Notification *)

\* C18: mutate then notify, before control yields: at every suspension point
\* of a request the getters show nothing that the subscribers have not been
\* notified of.  A stretch of a request that leaves the getters' values as
\* they were may run no round; any other stretch ends with a round that was
\* run on the values the getters show now and that invoked every callback
\* registered when it started.
C18_MutateThenNotify ==
  [][ last'.op \in {"submit", "step", "send_failed"} =>
        LET now == Getters(messages, traces, tasks, userRequests,
                           processingRequest)'
            n == Len(last'.rounds)
        IN IF n = 0
           THEN now = Getters(messages, traces, tasks, userRequests,
                              processingRequest)
           ELSE /\ last'.rounds[n].seen = now
                /\ last'.rounds[n].invoked = last'.rounds[n].at ]_vars

\* The position of the first callback of a list that throws, 0 if none does
FirstThrower(at) ==
  IF \A i \in 1..Len(at) : at[i] # "cbT" THEN 0
  ELSE CHOOSE i \in 1..Len(at) :
         at[i] = "cbT" /\ \A j \in 1..(i - 1) : at[j] # "cbT"

\* C19: notification has no error isolation: in a round where the i-th
\* registered callback throws, the callbacks up to the i-th are invoked and
\* those registered after it are not; the exception leaves the mutating
\* operation (the stretch throws, and a request it belongs to is over); and
\* what the operation had changed when the round started is still in the
\* store.
C19_NoErrorIsolation ==
  \A n \in 1..Len(last.rounds) :
    LET r == last.rounds[n]
        i == FirstThrower(r.at)
    IN i > 0 =>
         /\ r.invoked = SubSeq(r.at, 1, i)
         /\ last.threw
         /\ last.req # 0 => calls[last.req].pc = "done"
         /\ Len(messages) >= r.seen.messages
         /\ Len(traces) >= r.seen.traces
         /\ Len(tasks) >= Len(r.seen.tasks)
         /\ \A j \in 1..Len(r.seen.tasks) :
              <<tasks[j].id, tasks[j].status>> = r.seen.tasks[j]
         /\ Len(userRequests) = Len(r.seen.userRequests)

\* A mutator of a running request notified <<cbT, cbA>>: cbT threw and cbA
\* was not invoked.
C19_Witness ==
  \E n \in 1..Len(last.rounds) :
    /\ last.rounds[n].at = <<"cbT", "cbA">>
    /\ last.rounds[n].invoked = <<"cbT">>
    /\ last.rounds[n].after \in {"addMessage", "addTrace", "addTask", "updateTask"}

------------------------------------------------------------------------------
(* The native path *)

\* The response of request c: executor to "user", typed response
IsDelivery(m, c) ==
  m.req = c /\ m.from = "executor-1" /\ m.to = "user" /\ m.type = "response"

\* C20: review and delivery order in the native path: the stretch that emits
\* the response of a request finds its three tasks (research, planning,
\* execution) completed, its reviewing_solution trace followed by its
\* solution_approved trace, and the coordinator's internal approval message
\* to the executor; when the stretch ends the response is the last message
\* of the request and response_delivered is its last trace.
C20_ReviewThenDelivery ==
  [][ \A c \in ReqIds :
        ( /\ calls'[c].path = "native"
          /\ \A i \in 1..Len(messages) : ~IsDelivery(messages[i], c)
          /\ \E i \in 1..Len(messages') : IsDelivery(messages'[i], c) )
        => /\ \A phase \in {"research", "planning", "execution"} :
                \E i \in 1..Len(tasks) :
                  /\ tasks[i].id = TaskId(c, phase)
                  /\ tasks[i].status = "completed"
           /\ \E i, j \in 1..Len(traces) :
                /\ i < j
                /\ traces[i].req = c /\ traces[i].action = "reviewing_solution"
                /\ traces[j].req = c /\ traces[j].action = "solution_approved"
           /\ \E i \in 1..Len(messages) :
                /\ messages[i].req = c /\ messages[i].type = "internal"
                /\ messages[i].from = "coordinator-1"
                /\ messages[i].to = "executor-1"
                /\ messages[i].content[2] = "approved"
           /\ LET M == SelectSeq(messages', LAMBDA m : m.req = c)
                  T == SelectSeq(traces', LAMBDA t : t.req = c)
              IN /\ IsDelivery(M[Len(M)], c)
                 /\ T # <<>>
                 /\ T[Len(T)].action = "response_delivered" ]_vars

\* The agents that report to the coordinator, and the task each works on
Phases == {"research", "planning", "execution"}

PhaseAgent(phase) ==
  CASE phase = "research" -> "researcher-1"
    [] phase = "planning" -> "planner-1"
    [] OTHER              -> "executor-1"

NextPhase(phase) ==
  CASE phase = "research" -> "planning"
    [] phase = "planning" -> "execution"
    [] OTHER              -> "none"

\* C21: in each phase of the native path, when the internal message of the
\* phase's agent to the coordinator is recorded (the notification round of
\* that addMessage), the phase's task is already completed, with completedAt
\* and result set, the message's content is the task's result, and the task
\* of the next phase has not been created yet.
C21_PhaseReport ==
  \A n \in 1..Len(last.rounds) :
    LET r == last.rounds[n]
    IN (r.after = "addMessage" /\ r.seen.messages \in 1..Len(messages)) =>
         LET m == messages[r.seen.messages]
         IN \A phase \in Phases :
              ( /\ m.req # 0
                /\ calls[m.req].path = "native"
                /\ m.type = "internal"
                /\ m.from = PhaseAgent(phase)
                /\ m.to = "coordinator-1" )
              => /\ \E i \in 1..Len(r.seen.tasks) :
                      r.seen.tasks[i] = <<TaskId(m.req, phase), "completed">>
                 /\ \E i \in 1..Len(tasks) :
                      /\ tasks[i].id = TaskId(m.req, phase)
                      /\ tasks[i].completedAt
                      /\ tasks[i].result = m.content
                 /\ \A i \in 1..Len(r.seen.tasks) :
                      r.seen.tasks[i][1] # TaskId(m.req, NextPhase(phase))

------------------------------------------------------------------------------
(* The callback list *)

\* How many times cb is registered in the list cbs
Registrations(cbs, cb) == Cardinality({i \in 1..Len(cbs) : cbs[i] = cb})

------------------------------------------------------------------------------
(* The adapter's timers and sockets *)

\* C23: keep-alive pings run on one interval per connection: at most one
\* interval is running, an interval runs only while the adapter's socket is
\* open (every tick of a running interval writes a ping frame to the open
\* socket, so the frames per period are as many as the intervals), and an
\* open connection has its interval.
C23_OnePingInterval ==
  /\ adapters.intervals <= 1
  /\ adapters.intervals > 0 => IsOpen(adapters)
  /\ (adapters.variant # "rasa" /\ IsOpen(adapters)) => adapters.intervals > 0

\* The sockets that are open or being opened
LiveSockets ==
  {s \in 1..Len(adapters.sockets) : adapters.sockets[s] \in {"CONNECTING", "OPEN"}}

\* C29: at most one WebSocket is open or connecting and at most one
\* reconnect timer is pending; the close event of a socket that
\* connectWebSocket replaced schedules no reconnect, so that no timer is
\* pending while the adapter's socket is open or connecting.
C29_OneSocketOneTimer ==
  /\ Cardinality(LiveSockets) <= 1
  /\ adapters.timers <= 1
  /\ adapters.timers > 0 => LiveSockets = {}

\* The connect() runs that hold a status probe or a socket's promise
Runs(A) == {w \in Slots : A.conn[w].pc \in {"probe", "ws"}}

\* C30: concurrent connect() calls of the AutoGen adapter are coalesced: at
\* most one run probes the backend or opens the socket, a call made while a
\* run is in flight waits for that run and issues no probe, the waiting
\* callers get the run's answer, connectPromise is set exactly while a run
\* is in flight, and a call made after the run has settled starts a probe.
C30_ConnectCoalesced ==
  [][ adapters.variant = "backoff" =>
        /\ Cardinality(Runs(adapters')) <= 1
        /\ (adapters'.connectPromise # "none") <=> (Runs(adapters') # {})
        /\ \A w \in Slots :
             /\ adapters'.conn[w].pc \in {"idle", "shared", "probe", "ws"}
             /\ adapters'.conn[w].pc = "shared" => Runs(adapters') # {}
             /\ (adapters.conn[w].pc = "idle" /\ adapters'.conn[w].pc # "idle")
                  => adapters'.conn[w].pc =
                       IF Runs(adapters) = {} THEN "probe" ELSE "shared"
             /\ (adapters.conn[w].pc = "shared" /\ adapters'.conn[w].pc = "idle")
                  => \E r \in Runs(adapters) :
                       /\ adapters'.conn[r].pc = "idle"
                       /\ adapters'.conn[r].result = adapters'.conn[w].result
                       /\ adapters'.conn[w].result \in {"true", "false"} ]_vars

\* Two callers of one coalesced run have got its answer, and the marker is
\* cleared.
C30_Witness ==
  /\ adapters.variant = "backoff"
  /\ adapters.conn["direct"].result = "true"
  /\ adapters.conn["create"].result = "true"
  /\ adapters.connectPromise = "none"

------------------------------------------------------------------------------
(* Wedging and overlap *)

\* C24: a throwing subscriber cannot wedge the store: once every
\* submitUserRequest call made so far has settled, resolved or rejected,
\* isProcessing() is false, so that the next submitUserRequest is accepted.
C24_NotWedged ==
  ( /\ \A c \in ReqIds : calls[c].pc \in {"idle", "done"}
    /\ \E c \in ReqIds : calls[c].pc = "done" )
  => ~processingRequest

\* The records of one request are next to each other in the log s
Contiguous(s) ==
  \A i, j, k \in 1..Len(s) :
    (i < j /\ j < k /\ s[i].req = s[k].req) => s[j].req = s[i].req

\* C25: at most one simulation or adapter round trip is in progress at any
\* time, under every interleaving of submitUserRequest and clearData, and
\* the messages and traces of one request are never interleaved with those
\* of another.
C25_OneRoundTrip ==
  /\ Cardinality(InFlight) <= 1
  /\ Contiguous(messages)
  /\ Contiguous(traces)

------------------------------------------------------------------------------
(* Results and conversations *)

\* C26: the result of a completed UserRequest is the content of a
\* response-typed message addressed to "user" that was emitted during that
\* same request; a request that emitted none has no result.
C26_ResultOfSameRequest ==
  \A i \in 1..Len(userRequests) :
    (userRequests[i].status = "completed" /\ userRequests[i].result # NoContent)
      => \E j \in 1..Len(messages) :
           /\ messages[j].req = userRequests[i].id
           /\ IsUserResponse(messages[j])
           /\ messages[j].content = userRequests[i].result

\* C27: the conversation identifier passed to an adapter's sendMessage was
\* created by that adapter, whatever framework switches and requests came
\* before.
C27_OwnConversation ==
  \A c \in ReqIds : calls[c].pc = "send" => calls[c].sent = calls[c].path

------------------------------------------------------------------------------
(* Delivered tasks *)

====
